---- MODULE Spec2Model ----
(***************************************************************************)
(* Model of the patient record service of main.py: a JSON document         *)
(* (patients.json) holding a list of patient dicts, and the HTTP handlers  *)
(* that load it, act on it and save it back.                               *)
(*                                                                         *)
(* Numbers are fixed point: height in cm, weight in kg, bmi in hundredths  *)
(* (bmi 18.5 is 1850).  A Python dict is a function from its keys to its   *)
(* values; a dict that may hold None is a pair [vals, nulls] where nulls   *)
(* is the set of keys whose value is None.                                 *)
(***************************************************************************)
EXTENDS Integers, Sequences, FiniteSets, TLC

VARIABLES
    doc,    \* patients.json: [kind, fmt, data], kind absent / unparsable / json
    req,    \* the request being served (NoReq between requests)
    resp,   \* its response: [status, body]
    pc,     \* per worker thread: idle, save (loaded, about to save), done
    treq,   \* per worker thread: the request it serves
    tdata,  \* per worker thread: the handler's local list data
    tresp   \* per worker thread: its response

vars == <<doc, req, resp, pc, treq, tdata, tresp>>

seqvars == <<doc, req, resp>>

thrvars == <<pc, treq, tdata, tresp>>

(***************************************************************************)
(* Bounds and input sets                                                   *)
(***************************************************************************)
MaxId == 2

MaxRecs == 2

Ids == 1..MaxId

Names == {"Ann"}

Ages == {30, 40}

Cities == {"Pune"}

Heights == {150, 200}

Weights == {50, 74}

Genders == {"male"}

Threads == {"t1", "t2"}

(***************************************************************************)
(* Models: Patient and PatientUpdate                                       *)
(***************************************************************************)
StoredFields == {"id", "name", "age", "city", "height", "weight", "gender"}

ComputedFields == {"bmi", "verified"}

UpdateFields == {"name", "age", "city", "height", "weight", "gender"}

GenderLiteral == {"male", "female", "others"}

\* round(a / b) to the nearest integer, ties to even (Python's round)
RoundDiv(a, b) ==
    LET q == a \div b
        r == a % b
    IN  IF 2 * r < b THEN q
        ELSE IF 2 * r > b THEN q + 1
        ELSE IF q % 2 = 0 THEN q ELSE q + 1

\* Patient.bmi, in hundredths: round(weight / ((height / 100) ** 2), 2)
bmi(p) == RoundDiv(p.weight * 1000000, p.height * p.height)

\* Patient.verified: the category of the bmi
verified(p) ==
    LET b == bmi(p)
    IN  IF b < 1850 THEN "Underweight"
        ELSE IF b < 2500 THEN "Healthy"
        ELSE IF b < 3000 THEN "Overweight"
        ELSE "Obese"

\* a stored dict seen as keyword arguments: no key is None
AsKwargs(d) == [vals |-> d, nulls |-> {}]

\* Patient(**kw) passes validation: every field present and not None,
\* id, age, height, weight > 0, gender in the Literal
PatientValid(kw) ==
    /\ kw.nulls \cap StoredFields = {}
    /\ StoredFields \subseteq DOMAIN kw.vals
    /\ kw.vals.id > 0
    /\ kw.vals.age > 0
    /\ kw.vals.height > 0
    /\ kw.vals.weight > 0
    /\ kw.vals.gender \in GenderLiteral

\* Patient(**kw): the model instance keeps the declared fields, extra keys
\* (a stored bmi or verified) are ignored
Patient(kw) == [k \in StoredFields |-> kw.vals[k]]

\* Patient.model_dump(): the declared fields and the computed fields
model_dump(p) ==
    [k \in StoredFields \cup ComputedFields |->
        IF k = "bmi" THEN bmi(p)
        ELSE IF k = "verified" THEN verified(p)
        ELSE p[k]]

\* the Patient objects a request body can carry
Patients ==
    [id : Ids, name : Names, age : Ages, city : Cities,
     height : Heights, weight : Weights, gender : Genders]

\* the values a PatientUpdate accepts for a field (None apart)
FieldValues(k) ==
    CASE k = "name" -> Names
      [] k = "age" -> Ages
      [] k = "city" -> Cities
      [] k = "height" -> Heights
      [] k = "weight" -> Weights
      [] k = "gender" -> Genders

\* all functions from the key set S to the values of each key
RECURSIVE Assignments(_)
Assignments(S) ==
    IF S = {} THEN {<<>>}
    ELSE LET k == CHOOSE x \in S : TRUE
         IN  { [j \in DOMAIN f \cup {k} |-> IF j = k THEN v ELSE f[j]] :
                 f \in Assignments(S \ {k}), v \in FieldValues(k) }

\* the sets of fields a request body sets: none, one, or height and weight
SuppliedSets ==
    {{}} \cup { {k} : k \in UpdateFields } \cup {{"height", "weight"}}

\* PatientUpdate objects, as model_dump(exclude_unset=True) gives them:
\* the fields the body set, each to a valid value or to None
PatientUpdates ==
    UNION { UNION { { [vals |-> f, nulls |-> N] : f \in Assignments(S \ N) } :
                    N \in SUBSET S } :
            S \in SuppliedSets }

(***************************************************************************)
(* File storage                                                            *)
(***************************************************************************)
Absent == [kind |-> "absent", fmt |-> "none", data |-> <<>>]

Unparsable == [kind |-> "unparsable", fmt |-> "none", data |-> <<>>]

\* load_data(): the parsed list, or [] when the file is missing or not JSON
load_data(d) == IF d.kind = "json" THEN d.data ELSE <<>>

\* save_data with the file opened in append mode: the dump follows the old
\* text, which no longer parses unless there was no file
save_data_append(data) ==
    IF doc.kind = "absent"
    THEN [kind |-> "json", fmt |-> "indent2", data |-> data]
    ELSE Unparsable

\* save_data that keeps the records the file holds and adds the new ones
save_data_merge(data) ==
    [kind |-> "json", fmt |-> "indent2",
     data |-> load_data(doc) \o
              SelectSeq(data, LAMBDA r : \A i \in 1..Len(load_data(doc)) :
                                            load_data(doc)[i].id # r.id)]

\* save_data(data): the file rewritten as json.dump(data, indent=2)
save_data(data) == [kind |-> "json", fmt |-> "indent2", data |-> data]

(***************************************************************************)
(* Helpers of the handlers                                                 *)
(***************************************************************************)
\* an id test that never matches
HasId_Never(data, id) == FALSE

\* any(p["id"] == id for p in data)
HasId(data, id) == \E i \in 1..Len(data) : data[i].id = id

\* a scan that falls through to the last index when nothing matches
FirstIdx_Last(data, id) ==
    IF \E i \in 1..Len(data) : data[i].id = id
    THEN CHOOSE i \in 1..Len(data) :
             /\ data[i].id = id
             /\ \A j \in 1..(i - 1) : data[j].id # id
    ELSE Len(data)

\* the index of the first dict with that id (0 if none): the for/enumerate scan
FirstIdx(data, id) ==
    IF HasId(data, id)
    THEN CHOOSE i \in 1..Len(data) :
             /\ data[i].id = id
             /\ \A j \in 1..(i - 1) : data[j].id # id
    ELSE 0

\* del data[idx]
Remove(data, idx) ==
    [i \in 1..(Len(data) - 1) |-> IF i < idx THEN data[i] ELSE data[i + 1]]

\* updated_data = patient.copy(); updated_data.update(updates)
Merge(patient, updates) ==
    [vals |-> [k \in (DOMAIN patient \ updates.nulls) \cup DOMAIN updates.vals |->
                  IF k \in DOMAIN updates.vals THEN updates.vals[k] ELSE patient[k]],
     nulls |-> updates.nulls]

\* the merged dict stored as it is, not re-serialized through Patient
Updated_Stale(data, idx, updates) ==
    [data EXCEPT ![idx] = Merge(data[idx], updates).vals]

\* data[idx] = updated_patient.model_dump()
Updated(data, idx, updates) ==
    [data EXCEPT ![idx] = model_dump(Patient(Merge(data[idx], updates)))]

\* getattr(p, sort_by)
SortKey(p, sort_by) == IF sort_by = "bmi" THEN bmi(p) ELSE p[sort_by]

\* an order test that ignores reverse
Before_Asc(a, b, sort_by, reverse) == SortKey(a, sort_by) < SortKey(b, sort_by)

\* a before b in the requested order
Before(a, b, sort_by, reverse) ==
    IF reverse THEN SortKey(a, sort_by) > SortKey(b, sort_by)
    ELSE SortKey(a, sort_by) < SortKey(b, sort_by)

\* sorted(patients, key=..., reverse=...): stable in both directions
RECURSIVE sorted(_, _, _)
sorted(s, sort_by, reverse) ==
    IF s = <<>> THEN <<>>
    ELSE LET h == Head(s)
             rest == sorted(Tail(s), sort_by, reverse)
             n == Cardinality({ i \in 1..Len(rest) : Before(rest[i], h, sort_by, reverse) })
         IN  SubSeq(rest, 1, n) \o <<h>> \o SubSeq(rest, n + 1, Len(rest))

valid_fields == {"height", "weight", "age", "bmi"}

SortFields == valid_fields \cup {"name"}

Orders == {"asc", "desc", "up"}

(***************************************************************************)
(* Initial state: the document is missing, is not JSON, or holds a list   *)
(* of valid records with distinct ids in the persisted layout               *)
(***************************************************************************)
DistinctIds(data) ==
    \A i, j \in 1..Len(data) : data[i].id = data[j].id => i = j

\* the records a document holds before the service first writes it
StoredPatients ==
    { p \in Patients : \/ p.age = 30 /\ p.height = 150 /\ p.weight = 50
                       \/ p.age = 40 /\ p.height = 200 /\ p.weight = 74 }

InitDocs ==
    {Absent, Unparsable} \cup
    { [kind |-> "json", fmt |-> f, data |-> s] :
        f \in {"indent2", "other"},
        s \in { x \in UNION { [1..n -> StoredPatients] : n \in 0..MaxRecs } :
                   DistinctIds(x) } }

NoReq == [op |-> "none"]

NoResp == [status |-> 0, body |-> <<>>]

Init ==
    /\ doc \in InitDocs
    /\ req = NoReq
    /\ resp = NoResp
    /\ pc = [t \in Threads |-> "idle"]
    /\ treq = [t \in Threads |-> NoReq]
    /\ tdata = [t \in Threads |-> <<>>]
    /\ tresp = [t \in Threads |-> NoResp]

(***************************************************************************)
(* The handlers, each served as a whole                                    *)
(***************************************************************************)
\* GET /view
view_all_patients ==
    /\ req = NoReq
    /\ req' = [op |-> "view"]
    /\ resp' = [status |-> 200, body |-> load_data(doc)]
    /\ UNCHANGED <<doc, thrvars>>

\* GET /patient/{patient_id}
view_patient(patient_id) ==
    LET data == load_data(doc)
        idx == FirstIdx(data, patient_id)
    IN  /\ req = NoReq
        /\ req' = [op |-> "get", id |-> patient_id]
        /\ resp' = IF idx # 0 THEN [status |-> 200, body |-> <<data[idx]>>]
                   ELSE [status |-> 404, body |-> <<>>]
        /\ UNCHANGED <<doc, thrvars>>

\* GET /sort
sort_patients(sort_by, order) ==
    LET data == load_data(doc)
        patients == [i \in 1..Len(data) |-> Patient(AsKwargs(data[i]))]
        sorted_patients == sorted(patients, sort_by, order = "desc")
    IN  /\ req = NoReq
        /\ req' = [op |-> "sort", sort_by |-> sort_by, order |-> order]
        /\ resp' =
             IF sort_by \notin valid_fields THEN [status |-> 400, body |-> <<>>]
             ELSE IF order \notin {"asc", "desc"} THEN [status |-> 400, body |-> <<>>]
             ELSE IF \E i \in 1..Len(data) : ~PatientValid(AsKwargs(data[i]))
                  THEN [status |-> 500, body |-> <<>>]
             ELSE [status |-> 200,
                   body |-> [i \in 1..Len(data) |-> model_dump(sorted_patients[i])]]
        /\ UNCHANGED <<doc, thrvars>>

\* POST /create
create_patient(patient) ==
    LET data == load_data(doc)
    IN  /\ req = NoReq
        /\ req' = [op |-> "create", patient |-> patient]
        /\ IF HasId(data, patient.id)
           THEN /\ resp' = [status |-> 400, body |-> <<>>]
                /\ doc' = doc
           ELSE /\ doc' = save_data(Append(data, model_dump(patient)))
                /\ resp' = [status |-> 201, body |-> <<model_dump(patient)>>]
        /\ UNCHANGED thrvars

\* PUT /edit/{patient_id}
update_patient(patient_id, patient_update) ==
    LET data == load_data(doc)
        idx == FirstIdx(data, patient_id)
    IN  /\ req = NoReq
        /\ req' = [op |-> "update", id |-> patient_id, upd |-> patient_update]
        /\ IF idx = 0
           THEN /\ resp' = [status |-> 404, body |-> <<>>]
                /\ doc' = doc
           ELSE IF ~PatientValid(Merge(data[idx], patient_update))
           THEN \* Patient(**updated_data) raises pydantic's ValidationError
                \* inside the handler: an unhandled exception, answered 500
                /\ resp' = [status |-> 500, body |-> <<>>]
                /\ doc' = doc
           ELSE /\ doc' = save_data(Updated(data, idx, patient_update))
                /\ resp' = [status |-> 200,
                            body |-> <<Updated(data, idx, patient_update)[idx]>>]
        /\ UNCHANGED thrvars

\* DELETE /delete/{patient_id}
delete_patient(patient_id) ==
    LET data == load_data(doc)
        idx == FirstIdx(data, patient_id)
    IN  /\ req = NoReq
        /\ req' = [op |-> "delete", id |-> patient_id]
        /\ IF idx = 0
           THEN /\ resp' = [status |-> 404, body |-> <<>>]
                /\ doc' = doc
           ELSE /\ doc' = save_data(Remove(data, idx))
                /\ resp' = [status |-> 200, body |-> <<>>]
        /\ UNCHANGED thrvars

\* the list stays within the bound: a create is served when it is refused
\* or when the list has room for one more record
Room(p) ==
    \/ Len(load_data(doc)) < MaxRecs
    \/ \E i \in 1..Len(load_data(doc)) : load_data(doc)[i].id = p.id

\* the response is sent and the request's locals are dropped
send_response ==
    /\ req # NoReq
    /\ req' = NoReq
    /\ resp' = NoResp
    /\ UNCHANGED <<doc, thrvars>>

Next ==
    \/ view_all_patients
    \/ \E id \in Ids : view_patient(id)
    \/ \E f \in SortFields, o \in Orders : sort_patients(f, o)
    \/ \E p \in Patients : Room(p) /\ create_patient(p)
    \/ \E id \in Ids, u \in PatientUpdates : update_patient(id, u)
    \/ \E id \in Ids : delete_patient(id)
    \/ send_response

Spec == Init /\ [][Next]_vars

(***************************************************************************)
(* load() followed by save() of what was loaded                            *)
(***************************************************************************)
RoundTrip ==
    /\ req = NoReq
    /\ req' = [op |-> "roundtrip"]
    /\ doc' = save_data(load_data(doc))
    /\ resp' = NoResp
    /\ UNCHANGED thrvars

NextRoundTrip == Next \/ RoundTrip

SpecRoundTrip == Init /\ [][NextRoundTrip]_vars

(***************************************************************************)
(* Concurrent requests: the handlers are plain def functions, which the    *)
(* server runs on worker threads.  A mutating handler is two steps, from   *)
(* load_data() up to save_data(), then save_data() and the response.       *)
(***************************************************************************)
ConcPatient(id) ==
    [id |-> id, name |-> "Ann", age |-> 30, city |-> "Pune",
     height |-> 150, weight |-> 50, gender |-> "male"]

ConcUpdate == [vals |-> [weight |-> 74], nulls |-> {}]

ConcDocs ==
    {Absent} \cup
    { [kind |-> "json", fmt |-> "indent2", data |-> s] :
        s \in {<<>>} \cup { <<model_dump(ConcPatient(i))>> : i \in Ids } }

InitConc ==
    /\ doc \in ConcDocs
    /\ req = NoReq
    /\ resp = NoResp
    /\ pc = [t \in Threads |-> "idle"]
    /\ treq = [t \in Threads |-> NoReq]
    /\ tdata = [t \in Threads |-> <<>>]
    /\ tresp = [t \in Threads |-> NoResp]

\* the handler raises HTTPException (or fails) without saving: its locals
\* are gone
Answer(t, r, status) ==
    /\ pc' = [pc EXCEPT ![t] = "done"]
    /\ treq' = [treq EXCEPT ![t] = r]
    /\ tdata' = [tdata EXCEPT ![t] = <<>>]
    /\ tresp' = [tresp EXCEPT ![t] = [status |-> status, body |-> <<>>]]

\* the handler has changed its list and is about to save it
Pending(t, r, data) ==
    /\ pc' = [pc EXCEPT ![t] = "save"]
    /\ treq' = [treq EXCEPT ![t] = r]
    /\ tdata' = [tdata EXCEPT ![t] = data]
    /\ tresp' = [tresp EXCEPT ![t] = NoResp]

\* create_patient up to save_data
create_patient_load(t, patient) ==
    LET data == load_data(doc)
        r == [op |-> "create", id |-> patient.id]
    IN  /\ pc[t] # "save"
        /\ IF HasId(data, patient.id)
           THEN Answer(t, r, 400)
           ELSE Pending(t, r, Append(data, model_dump(patient)))
        /\ UNCHANGED seqvars

\* update_patient up to save_data
update_patient_load(t, patient_id, patient_update) ==
    LET data == load_data(doc)
        idx == FirstIdx(data, patient_id)
        r == [op |-> "update", id |-> patient_id]
    IN  /\ pc[t] # "save"
        /\ IF idx = 0 THEN Answer(t, r, 404)
           ELSE IF ~PatientValid(Merge(data[idx], patient_update))
           THEN Answer(t, r, 500)
           ELSE Pending(t, r, Updated(data, idx, patient_update))
        /\ UNCHANGED seqvars

\* delete_patient up to save_data
delete_patient_load(t, patient_id) ==
    LET data == load_data(doc)
        idx == FirstIdx(data, patient_id)
        r == [op |-> "delete", id |-> patient_id]
    IN  /\ pc[t] # "save"
        /\ IF idx = 0 THEN Answer(t, r, 404)
           ELSE Pending(t, r, Remove(data, idx))
        /\ UNCHANGED seqvars

\* save_data(data) and the JSONResponse of the three mutating handlers
save_and_respond(t) ==
    /\ pc[t] = "save"
    /\ doc' = save_data(tdata[t])
    /\ pc' = [pc EXCEPT ![t] = "done"]
    /\ tresp' = [tresp EXCEPT ![t] =
                    [status |-> IF treq[t].op = "create" THEN 201 ELSE 200,
                     body |-> <<>>]]
    /\ UNCHANGED <<req, resp, treq, tdata>>

NextConc ==
    \/ \E t \in Threads, i \in Ids :
          /\ Len(load_data(doc)) < MaxRecs \/ HasId(load_data(doc), i)
          /\ create_patient_load(t, ConcPatient(i))
    \/ \E t \in Threads, i \in Ids : update_patient_load(t, i, ConcUpdate)
    \/ \E t \in Threads, i \in Ids : delete_patient_load(t, i)
    \/ \E t \in Threads : save_and_respond(t)

SpecConc == InitConc /\ [][NextConc]_vars

(***************************************************************************)
(* Properties                                                              *)
(***************************************************************************)
\* some dict of the list carries the id
Carries(data, id) == \E i \in 1..Len(data) : data[i].id = id

\* the stored fields of a dict
StoredPart(r) == [k \in StoredFields |-> r[k]]

\* b is weight / (height / 100)^2 in hundredths, to the nearest hundredth
IsBmiOf(b, r) ==
    LET d == 2 * (b * r.height * r.height - r.weight * 1000000)
    IN  d <= r.height * r.height /\ -d <= r.height * r.height

\* c is the category of the bmi b
IsCategoryOf(c, b) ==
    /\ (c = "Underweight") = (b < 1850)
    /\ (c = "Healthy") = (b >= 1850 /\ b < 2500)
    /\ (c = "Overweight") = (b >= 2500 /\ b < 3000)
    /\ (c = "Obese") = (b >= 3000)

\* the dict carries bmi and category, consistent with its height and weight
HasDerived(r) ==
    /\ ComputedFields \subseteq DOMAIN r
    /\ IsBmiOf(r.bmi, r)
    /\ IsCategoryOf(r.verified, r.bmi)

\* C1: a create whose id is already stored answers 400 and leaves the
\* document exactly as it was
C1_CreateConflict ==
    [][(req'.op = "create" /\ Carries(load_data(doc), req'.patient.id))
         => (resp'.status = 400 /\ doc' = doc)]_vars

C1_Witness ==
    /\ req.op = "create"
    /\ resp.status = 400
    /\ Carries(load_data(doc), req.patient.id)
    /\ Len(load_data(doc)) = MaxRecs

\* C2: a delete or an update of an id that no stored record carries answers
\* 404 and leaves the document exactly as it was
C2_AbsentIdNotFound ==
    [][(req'.op \in {"delete", "update"} /\ ~Carries(load_data(doc), req'.id))
         => (resp'.status = 404 /\ doc' = doc)]_vars

C2_Witness ==
    /\ req.op \in {"delete", "update"}
    /\ resp.status = 404
    /\ ~Carries(load_data(doc), req.id)
    /\ load_data(doc) # <<>>

\* C3: a successful update keeps the length and order of the list, every
\* other record, the id and every unsupplied stored field of the record,
\* and stores a bmi computed from the resulting height and weight
C3_UpdateFrame ==
    [][(req'.op = "update" /\ resp'.status = 200) =>
         LET old == load_data(doc)
             new == load_data(doc')
             supplied == DOMAIN req'.upd.vals \cup req'.upd.nulls
         IN  /\ doc'.kind = "json"
             /\ Len(new) = Len(old)
             /\ \E i \in 1..Len(old) :
                  /\ old[i].id = req'.id
                  /\ \A j \in 1..Len(old) : j # i => new[j] = old[j]
                  /\ new[i].id = old[i].id
                  /\ \A k \in UpdateFields \ supplied : new[i][k] = old[i][k]
                  /\ "bmi" \in DOMAIN new[i]
                  /\ IsBmiOf(new[i].bmi, new[i])]_vars

C3_Witness ==
    /\ req.op = "update"
    /\ resp.status = 200
    /\ DOMAIN req.upd.vals = {"weight"}
    /\ Len(load_data(doc)) = 2
    /\ \E i \in 1..2 :
         /\ doc.data[i].id = req.id
         /\ doc.data[i].weight = 74
         /\ doc.data[i].height = 200
         /\ doc.data[i].bmi = 1850

\* C4: no two records of the document have the same id, whatever the
\* interleaving of the load and save steps of concurrent requests
C4_UniqueIds == DistinctIds(load_data(doc))

C4_Witness ==
    /\ \A t \in Threads :
         /\ pc[t] = "done"
         /\ treq[t] = [op |-> "create", id |-> 1]
         /\ tresp[t].status = 201
    /\ Len(load_data(doc)) = 2

\* C5: every record of the document holds exactly the seven stored fields
C5_StoredLayout ==
    \A i \in 1..Len(load_data(doc)) : DOMAIN doc.data[i] = StoredFields

\* C6: every record that GET /view returns carries bmi and category,
\* consistent with its height and weight
C6_ViewDerived ==
    req.op = "view" => \A i \in 1..Len(resp.body) : HasDerived(resp.body[i])

\* C7: load() then save() leaves the document unchanged, whatever it holds
C7_RoundTripNoOp ==
    [][req'.op = "roundtrip" => doc' = doc]_vars

\* C7 as amended: load() then save() leaves the record sequence of a
\* document that holds one unchanged, and turns an absent or unparsable
\* document into one that holds the empty sequence
C7_RoundTripContent ==
    [][req'.op = "roundtrip" =>
         /\ doc'.kind = "json"
         /\ (doc.kind = "json" => doc'.data = doc.data)
         /\ (doc.kind # "json" => doc'.data = <<>>)]_vars

C7_Witness ==
    /\ req.op = "roundtrip"
    /\ Len(load_data(doc)) = 2
    /\ \E i \in 1..2 : "bmi" \in DOMAIN doc.data[i]

\* C8: an update that finds the record but whose merged record is invalid
\* answers 422 and leaves the document unchanged
C8_UpdateInvalid422 ==
    [][(/\ req'.op = "update"
        /\ Carries(load_data(doc), req'.id)
        /\ \E i \in 1..Len(load_data(doc)) :
             /\ doc.data[i].id = req'.id
             /\ ~PatientValid(Merge(doc.data[i], req'.upd)))
         => (resp'.status = 422 /\ doc' = doc)]_vars

\* C9: a sort by a valid field and order answers every stored record once,
\* each with its bmi computed, in non-decreasing (asc) or non-increasing
\* (desc) order of the field, and leaves the document unchanged
C9_SortOrdered ==
    [][(req'.op = "sort" /\ req'.sort_by \in {"height", "weight", "age", "bmi"}
          /\ req'.order \in {"asc", "desc"}) =>
         LET data == load_data(doc)
             body == resp'.body
             f == req'.sort_by
         IN  /\ resp'.status = 200
             /\ doc' = doc
             /\ Len(body) = Len(data)
             /\ \A i \in 1..Len(data) :
                  Cardinality({ j \in 1..Len(body) :
                                  StoredPart(body[j]) = StoredPart(data[i]) }) = 1
             /\ \A j \in 1..Len(body) : HasDerived(body[j])
             /\ \A j \in 1..(Len(body) - 1) :
                  IF req'.order = "asc" THEN body[j][f] <= body[j + 1][f]
                  ELSE body[j][f] >= body[j + 1][f]]_vars

C9_Witness ==
    /\ req.op = "sort"
    /\ req.sort_by = "bmi"
    /\ req.order = "desc"
    /\ Len(resp.body) = 2
    /\ resp.body[1].bmi > resp.body[2].bmi
    /\ resp.body[1].weight < resp.body[2].weight
    /\ StoredPart(resp.body[1]) = StoredPart(doc.data[2])

\* C10: when two creates of distinct ids have both answered 201 and each
\* had loaded a list without the other's id, the document is the list of
\* one of them and holds only that one's record of the two
C10_LostUpdate ==
    \A t, u \in Threads :
        (/\ t # u
         /\ pc[t] = "done" /\ pc[u] = "done"
         /\ treq[t].op = "create" /\ treq[u].op = "create"
         /\ tresp[t].status = 201 /\ tresp[u].status = 201
         /\ treq[t].id # treq[u].id
         /\ ~Carries(tdata[t], treq[u].id)
         /\ ~Carries(tdata[u], treq[t].id))
        => /\ doc.kind = "json"
           /\ doc.data \in {tdata[t], tdata[u]}
           /\ Carries(doc.data, treq[t].id) # Carries(doc.data, treq[u].id)

C10_Witness ==
    /\ pc["t1"] = "done" /\ pc["t2"] = "done"
    /\ treq["t1"] = [op |-> "create", id |-> 1]
    /\ treq["t2"] = [op |-> "create", id |-> 2]
    /\ tresp["t1"].status = 201 /\ tresp["t2"].status = 201
    /\ ~Carries(tdata["t1"], 2)
    /\ ~Carries(tdata["t2"], 1)
    /\ doc.data = tdata["t2"]
    /\ ~Carries(doc.data, 1)

====
